---------------------------- MODULE Spec2Model ----------------------------
(***************************************************************************)
(* Model of cordas_cria_features.py: the script that walks the expected    *)
(* files corda{n}_{m}.wav, computes a mean FFT spectrum and a mean Mel     *)
(* spectrum (both in dB) for every file found, accumulates them with the   *)
(* string label and saves three arrays.                                    *)
(***************************************************************************)
EXTENDS Integers, Sequences, FiniteSets, TLC

\* ------------------------------------------------------------------------
\* Configuration (lines 10-17) and the loop ranges (lines 95-96)
\* ------------------------------------------------------------------------
SR == 22050
N_FFT == 2048
N_MELS == 40
BASE_DIR == "/content/drive/MyDrive/cordas_amostras"

\* range(1, 7) and range(1, 31)
NumCordas == 6
NumAmostras == 30

\* ------------------------------------------------------------------------
\* Bounds of the model
\* ------------------------------------------------------------------------
\* The input directories explored are a base directory (every expected file
\* present, or none) in which the files of one window of consecutive expected
\* names (in the order of the enumeration) are in any state.
Janela == 1

\* The numeric model of the dB conversion works on a power spectrogram of
\* NumBinsDb frequency bins by NumQuadrosDb time frames.
NumBinsDb == 2
NumQuadrosDb == 2

VARIABLES
    disco,        \* input directory: the paths that are regular files
    ilegiveis,    \* the paths of disco whose content does not decode as audio
    pc,           \* position of the script
    n, m,         \* loop variables of lines 95-96
    X_fft_list, X_mel_list, y_labels,   \* the accumulating lists (lines 90-92)
    X_fft, X_mel, y_arr,                \* the arrays of lines 123-125 (line 125 rebinds
                                        \* the name y_labels; here the array is y_arr)
    console,      \* the lines printed so far by this execution
    saidas,       \* output files on disk: name -> array, or Nenhum
    gravacoes,    \* names of the output files written by this execution, in order
    reexecucao,   \* TRUE in the second execution over the same directory
    anterior,     \* the output files as the first execution left them
    mag,          \* a power spectrogram |X|^2: bin -> frame -> power
    mag_db,       \* the vector espectro_fft_medio returns for it
    S_mel_db,     \* the vector espectro_mel_medio returns for it
    pcdb          \* position of the computation on mag

vars == <<disco, ilegiveis, pc, n, m, X_fft_list, X_mel_list, y_labels,
          X_fft, X_mel, y_arr, console, saidas, gravacoes, reexecucao, anterior,
          mag, mag_db, S_mel_db, pcdb>>

varsDb == <<mag, mag_db, S_mel_db, pcdb>>

Nenhum == [shape |-> <<>>, dados |-> <<"nenhum">>]

NomesSaida == {"X_fft.npy", "X_mel.npy", "y_labels.npy"}

\* ------------------------------------------------------------------------
\* File names
\* ------------------------------------------------------------------------
\* f"corda{n}_{m}.wav" (line 97)
filename(nn, mm) == "corda" \o ToString(nn) \o "_" \o ToString(mm) \o ".wav"

\* os.path.join(BASE_DIR, filename) (line 98)
filepath(nn, mm) == BASE_DIR \o "/" \o filename(nn, mm)

Cordas == 1..NumCordas
Amostras == 1..NumAmostras
Esperados == Cordas \X Amostras
Caminho == [e \in Esperados |-> filepath(e[1], e[2])]
Caminhos == { Caminho[e] : e \in Esperados }

\* the expected (n, m) a path names: the names are distinct
ArquivoDe == [p \in Caminhos |-> CHOOSE e \in Esperados : Caminho[e] = p]

\* position of (nn, mm) in the enumeration of lines 95-96, from 1
Ordem(nn, mm) == (nn - 1) * NumAmostras + mm
Total == NumCordas * NumAmostras

\* os.path.isfile(filepath) (line 100)
isfile(path) == path \in disco

\* ------------------------------------------------------------------------
\* The functions of lines 23-83, as the loop uses them
\* ------------------------------------------------------------------------
\* In the loop a signal and its two dB vectors are carried as terms: the signal
\* is "what carregar_limpar_audio reads from this path", a dB vector is "this
\* summary of this signal" with its length. The values of the dB vectors are
\* modelled apart, on small spectrograms, by fft_medio_db and mel_medio_db.

\* carregar_limpar_audio (lines 23-37): the trimmed, normalised signal decoded
\* from the file at `path`, with the sampling rate asked for.
carregar_limpar_audio(path, sr) == <<[sinal |-> path], sr>>

\* espectro_fft_medio (lines 39-59): STFT with n_fft points has n_fft/2 + 1
\* frequency bins; the dB vector has one value per bin.
espectro_fft_medio(y, sr) ==
    <<[linspace |-> <<0, sr \div 2>>, len |-> N_FFT \div 2 + 1],
      [de |-> y, tipo |-> "fft_db", len |-> N_FFT \div 2 + 1]>>

\* espectro_mel_medio (lines 61-83): one dB value per Mel filter.
espectro_mel_medio(y, sr) ==
    <<[mel_frequencies |-> <<0, sr \div 2>>, len |-> N_MELS],
      [de |-> y, tipo |-> "mel_db", len |-> N_MELS]>>

\* np.array(list) (lines 123-125): np.array reads the shape off the list it is
\* given: the number of items, then the shape of an item. The empty list has no
\* item to read a second dimension from and becomes a (0,) array.
\* np.array of a list of vectors (lines 123-124)
np_array_vetores(lista) ==
    IF lista = <<>> THEN [shape |-> <<0>>, dados |-> <<>>]
    ELSE [shape |-> <<Len(lista), lista[1].len>>, dados |-> lista]

\* np.array of a list of integers (line 125)
np_array_escalares(lista) ==
    IF lista = <<>> THEN [shape |-> <<0>>, dados |-> <<>>]
    ELSE [shape |-> <<Len(lista)>>, dados |-> lista]

\* ------------------------------------------------------------------------
\* Initial states
\* ------------------------------------------------------------------------
EstadosArquivo == {"ausente", "audio", "corrompido"}

\* the state of the expected file number i (in the order of the enumeration) in
\* the directory equal to `base` except in the window starting at `ini`
EstadoEm(base, ini, w, i) ==
    IF i >= ini /\ i < ini + Janela THEN w[i - ini + 1] ELSE base

Diretorio(base, ini, w) ==
    [arquivos |-> { filepath(e[1], e[2]) : e \in
                      { e \in Esperados : EstadoEm(base, ini, w, Ordem(e[1], e[2])) # "ausente" } },
     ilegiveis |-> { filepath(e[1], e[2]) : e \in
                      { e \in Esperados : EstadoEm(base, ini, w, Ordem(e[1], e[2])) = "corrompido" } }]

Diretorios ==
    { Diretorio(base, ini, w) :
        base \in {"audio", "ausente"},
        ini \in 1..Total,
        w \in [1..Janela -> EstadosArquivo] }

Init ==
    /\ \E d \in Diretorios : /\ disco = d.arquivos
                            /\ ilegiveis = d.ilegiveis
    /\ pc = "laco"
    /\ n = 1
    /\ m = 1
    /\ X_fft_list = <<>>
    /\ X_mel_list = <<>>
    /\ y_labels = <<>>
    /\ X_fft = Nenhum
    /\ X_mel = Nenhum
    /\ y_arr = Nenhum
    /\ console = <<>>
    /\ saidas = [nome \in NomesSaida |-> Nenhum]
    /\ gravacoes = <<>>
    /\ reexecucao = FALSE
    /\ anterior = [nome \in NomesSaida |-> Nenhum]
    /\ mag = <<>>
    /\ mag_db = <<>>
    /\ S_mel_db = <<>>
    /\ pcdb = "inativo"

\* ------------------------------------------------------------------------
\* The main loop (lines 95-120)
\* ------------------------------------------------------------------------
\* the texts of the two lines the loop prints (lines 101 and 104; the accent of
\* "não" is dropped); a console line is the tuple of its parts
Aviso == "AVISO: arquivo nao encontrado -> "
Progresso == "Processando "

\* faulty variant: the inner loop stops one sample short
AvancarCurto ==
    IF m < NumAmostras - 1 THEN /\ m' = m + 1
                                /\ UNCHANGED <<n, pc>>
    ELSE IF n < NumCordas THEN /\ n' = n + 1
                               /\ m' = 1
                               /\ UNCHANGED pc
    ELSE /\ pc' = "converter"
         /\ UNCHANGED <<n, m>>

\* the for loops step to the next (n, m), or leave the loop after the last
Avancar ==
    IF m < NumAmostras THEN /\ m' = m + 1
                            /\ UNCHANGED <<n, pc>>
    ELSE IF n < NumCordas THEN /\ n' = n + 1
                               /\ m' = 1
                               /\ UNCHANGED pc
    ELSE /\ pc' = "converter"
         /\ UNCHANGED <<n, m>>

\* faulty variant: the label is appended before the file is looked for
ArquivoAusenteComRotulo ==
    /\ pc = "laco"
    /\ ~isfile(filepath(n, m))
    /\ console' = Append(console, <<Aviso, filepath(n, m)>>)
    /\ y_labels' = Append(y_labels, n)
    /\ Avancar
    /\ UNCHANGED <<disco, ilegiveis, X_fft_list, X_mel_list, X_fft, X_mel, y_arr,
                   saidas, gravacoes, reexecucao, anterior, varsDb>>

\* lines 100-102: the file is not there: warn and continue
ArquivoAusente ==
    /\ pc = "laco"
    /\ ~isfile(filepath(n, m))
    /\ console' = Append(console, <<Aviso, filepath(n, m)>>)
    /\ Avancar
    /\ UNCHANGED <<disco, ilegiveis, X_fft_list, X_mel_list, y_labels, X_fft, X_mel, y_arr,
                   saidas, gravacoes, reexecucao, anterior, varsDb>>

\* faulty variant: the label is the sample index instead of the string index
ProcessarRotuloAmostra ==
    /\ pc = "laco"
    /\ isfile(filepath(n, m))
    /\ filepath(n, m) \notin ilegiveis
    /\ LET carregado == carregar_limpar_audio(filepath(n, m), SR)
           y == carregado[1]
           sr == carregado[2]
           fft_db == espectro_fft_medio(y, sr)[2]
           mel_db == espectro_mel_medio(y, sr)[2]
       IN /\ console' = Append(console, <<Progresso, filepath(n, m), " ...">>)
          /\ X_fft_list' = Append(X_fft_list, fft_db)
          /\ X_mel_list' = Append(X_mel_list, mel_db)
          /\ y_labels' = Append(y_labels, m)
    /\ Avancar
    /\ UNCHANGED <<disco, ilegiveis, X_fft, X_mel, y_arr, saidas, gravacoes, reexecucao, anterior, varsDb>>

\* faulty variant: the Mel vector of a file is not kept
ProcessarSemMel ==
    /\ pc = "laco"
    /\ isfile(filepath(n, m))
    /\ filepath(n, m) \notin ilegiveis
    /\ LET carregado == carregar_limpar_audio(filepath(n, m), SR)
           y == carregado[1]
           sr == carregado[2]
           fft_db == espectro_fft_medio(y, sr)[2]
           mel_db == espectro_mel_medio(y, sr)[2]
       IN /\ console' = Append(console, <<Progresso, filepath(n, m), " ...">>)
          /\ X_fft_list' = Append(X_fft_list, fft_db)
          /\ X_mel_list' = X_mel_list
          /\ y_labels' = Append(y_labels, n)
    /\ Avancar
    /\ UNCHANGED <<disco, ilegiveis, X_fft, X_mel, y_arr, saidas, gravacoes, reexecucao, anterior, varsDb>>

\* faulty variant: new entries are inserted at the front of the lists
ProcessarNaFrente ==
    /\ pc = "laco"
    /\ isfile(filepath(n, m))
    /\ filepath(n, m) \notin ilegiveis
    /\ LET carregado == carregar_limpar_audio(filepath(n, m), SR)
           y == carregado[1]
           sr == carregado[2]
           fft_db == espectro_fft_medio(y, sr)[2]
           mel_db == espectro_mel_medio(y, sr)[2]
       IN /\ console' = Append(console, <<Progresso, filepath(n, m), " ...">>)
          /\ X_fft_list' = <<fft_db>> \o X_fft_list
          /\ X_mel_list' = <<mel_db>> \o X_mel_list
          /\ y_labels' = <<n>> \o y_labels
    /\ Avancar
    /\ UNCHANGED <<disco, ilegiveis, X_fft, X_mel, y_arr, saidas, gravacoes, reexecucao, anterior, varsDb>>

\* lines 104-120: the file is there and decodes
Processar ==
    /\ pc = "laco"
    /\ isfile(filepath(n, m))
    /\ filepath(n, m) \notin ilegiveis
    /\ LET carregado == carregar_limpar_audio(filepath(n, m), SR)
           y == carregado[1]
           sr == carregado[2]
           fft_db == espectro_fft_medio(y, sr)[2]
           mel_db == espectro_mel_medio(y, sr)[2]
       IN /\ console' = Append(console, <<Progresso, filepath(n, m), " ...">>)
          /\ X_fft_list' = Append(X_fft_list, fft_db)
          /\ X_mel_list' = Append(X_mel_list, mel_db)
          /\ y_labels' = Append(y_labels, n)
    /\ Avancar
    /\ UNCHANGED <<disco, ilegiveis, X_fft, X_mel, y_arr, saidas, gravacoes, reexecucao, anterior, varsDb>>

\* faulty variant: the exception of a file that does not decode is caught and the
\* file is skipped
FalhaCapturada ==
    /\ pc = "laco"
    /\ isfile(filepath(n, m))
    /\ filepath(n, m) \in ilegiveis
    /\ console' = Append(console, <<Progresso, filepath(n, m), " ...">>)
    /\ Avancar
    /\ UNCHANGED <<disco, ilegiveis, X_fft_list, X_mel_list, y_labels, X_fft, X_mel, y_arr,
                   saidas, gravacoes, reexecucao, anterior, varsDb>>

\* lines 104-113: the file is there and librosa.load (or a transform of what it
\* read) raises: the progress line is already printed, nothing catches the
\* exception and the script ends
FalhaAoCarregar ==
    /\ pc = "laco"
    /\ isfile(filepath(n, m))
    /\ filepath(n, m) \in ilegiveis
    /\ console' = Append(console, <<Progresso, filepath(n, m), " ...">>)
    /\ pc' = "abortado"
    /\ UNCHANGED <<disco, ilegiveis, n, m, X_fft_list, X_mel_list, y_labels, X_fft, X_mel, y_arr,
                   saidas, gravacoes, reexecucao, anterior, varsDb>>

\* ------------------------------------------------------------------------
\* Conversion and persistence (lines 122-140)
\* ------------------------------------------------------------------------
\* lines 123-130
Converter ==
    /\ pc = "converter"
    /\ X_fft' = np_array_vetores(X_fft_list)
    /\ X_mel' = np_array_vetores(X_mel_list)
    /\ y_arr' = np_array_escalares(y_labels)
    /\ console' = console \o << <<"Formatos das matrizes:">>,
                                <<"X_fft:", np_array_vetores(X_fft_list).shape>>,
                                <<"X_mel:", np_array_vetores(X_mel_list).shape>>,
                                <<"y_labels:", np_array_escalares(y_labels).shape>> >>
    /\ pc' = "salvar_fft"
    /\ UNCHANGED <<disco, ilegiveis, n, m, X_fft_list, X_mel_list, y_labels,
                   saidas, gravacoes, reexecucao, anterior, varsDb>>

\* faulty variant: an empty array is not written
np_save_se_nao_vazio(nome, arr) ==
    IF arr.shape[1] = 0
    THEN UNCHANGED <<saidas, gravacoes>>
    ELSE /\ saidas' = [saidas EXCEPT ![nome] = arr]
         /\ gravacoes' = Append(gravacoes, nome)

\* np.save(nome, arr)
np_save(nome, arr) ==
    /\ saidas' = [saidas EXCEPT ![nome] = arr]
    /\ gravacoes' = Append(gravacoes, nome)

\* line 136
SalvarFft ==
    /\ pc = "salvar_fft"
    /\ np_save("X_fft.npy", X_fft)
    /\ pc' = "salvar_mel"
    /\ UNCHANGED <<disco, ilegiveis, n, m, X_fft_list, X_mel_list, y_labels, X_fft, X_mel, y_arr,
                   console, reexecucao, anterior, varsDb>>

\* line 137
SalvarMel ==
    /\ pc = "salvar_mel"
    /\ np_save("X_mel.npy", X_mel)
    /\ pc' = "salvar_labels"
    /\ UNCHANGED <<disco, ilegiveis, n, m, X_fft_list, X_mel_list, y_labels, X_fft, X_mel, y_arr,
                   console, reexecucao, anterior, varsDb>>

\* lines 138-140
SalvarLabels ==
    /\ pc = "salvar_labels"
    /\ np_save("y_labels.npy", y_arr)
    /\ console' = Append(console, <<"Arquivos salvos: X_fft.npy, X_mel.npy, y_labels.npy">>)
    /\ pc' = "fim"
    /\ UNCHANGED <<disco, ilegiveis, n, m, X_fft_list, X_mel_list, y_labels, X_fft, X_mel, y_arr,
                   reexecucao, anterior, varsDb>>

Next ==
    \/ ArquivoAusente
    \/ Processar
    \/ FalhaAoCarregar
    \/ Converter
    \/ SalvarFft
    \/ SalvarMel
    \/ SalvarLabels

Spec == Init /\ [][Next]_vars

\* ------------------------------------------------------------------------
\* A second execution over the same directory
\* ------------------------------------------------------------------------
\* faulty variant: the lists of the first execution are kept, as when lines 90-92 are
\* not run again
ReexecutarSemLimpar ==
    /\ pc \in {"fim", "abortado"}
    /\ ~reexecucao
    /\ reexecucao' = TRUE
    /\ anterior' = saidas
    /\ n' = 1
    /\ m' = 1
    /\ pc' = "laco"
    /\ X_fft' = Nenhum
    /\ X_mel' = Nenhum
    /\ y_arr' = Nenhum
    /\ console' = <<>>
    /\ gravacoes' = <<>>
    /\ UNCHANGED <<disco, ilegiveis, saidas, X_fft_list, X_mel_list, y_labels, varsDb>>

\* The script is started again once the first execution has ended (normally or
\* by the uncaught exception): lines 90-92 start from empty lists, the loop
\* starts from n = 1, m = 1. The input directory and the output files written
\* by the first execution are as they were left.
Reexecutar ==
    /\ pc \in {"fim", "abortado"}
    /\ ~reexecucao
    /\ reexecucao' = TRUE
    /\ anterior' = saidas
    /\ X_fft_list' = <<>>
    /\ X_mel_list' = <<>>
    /\ y_labels' = <<>>
    /\ n' = 1
    /\ m' = 1
    /\ pc' = "laco"
    /\ X_fft' = Nenhum
    /\ X_mel' = Nenhum
    /\ y_arr' = Nenhum
    /\ console' = <<>>
    /\ gravacoes' = <<>>
    /\ UNCHANGED <<disco, ilegiveis, saidas, varsDb>>

NextDuas ==
    \/ Next
    \/ Reexecutar

SpecDuas == Init /\ [][NextDuas]_vars

\* ------------------------------------------------------------------------
\* The dB conversion (lines 48-54 and 66-78), on small integer spectrograms
\* ------------------------------------------------------------------------
\* Powers are integers, in units of half of librosa's amin (1e-10): amin is 2,
\* and 1 is a non-zero power below amin.
Potencias == {0, 1, 700, 300000000}

BinsDb == 1..NumBinsDb
QuadrosDb == 1..NumQuadrosDb

RECURSIVE Soma(_, _)
Soma(f, k) == IF k = 0 THEN 0 ELSE f[k] + Soma(f, k - 1)

np_max(v) == CHOOSE x \in { v[i] : i \in DOMAIN v } : \A i \in DOMAIN v : v[i] <= x

maximo(a, b) == IF a >= b THEN a ELSE b

\* np.mean(S, axis=1): the mean over the frames, bin by bin
np_mean_axis1(S) == [b \in DOMAIN S |-> Soma(S[b], Len(S[b])) \div Len(S[b])]

RECURSIVE Decadas(_)
Decadas(x) == IF x < 10 THEN 0 ELSE 1 + Decadas(x \div 10)

RECURSIVE Pot10(_)
Pot10(k) == IF k = 0 THEN 1 ELSE 10 * Pot10(k - 1)

\* 10 * log10(x) for x >= 1, rounded down to a whole dB: ten per decade, and
\* within the decade the number of the thresholds 10^(k/10) reached.
Limiares == {1000, 1259, 1585, 1996, 2512, 3163, 3982, 5012, 6310, 7944}

DezLog10(x) ==
    LET d == Decadas(x)
        mant == IF d >= 3 THEN x \div Pot10(d - 3) ELSE x * Pot10(3 - d)
    IN 10 * d + Cardinality({ t \in Limiares : t <= mant }) - 1

\* the conversion with the reference of librosa's default, ref=1.0: one unit
\* of power is 5e-11, so the reference is 2 * 10^10 units, 103 dB above one unit
power_to_db_ref_padrao(S) ==
    LET amin == 2
        top_db == 80
        log_spec == [i \in DOMAIN S |-> DezLog10(maximo(amin, S[i])) - 103]
        piso == np_max(log_spec) - top_db
    IN [i \in DOMAIN S |-> maximo(log_spec[i], piso)]

\* librosa.power_to_db(S, ref=np.max) (lines 54 and 78), with the defaults
\* amin=1e-10 and top_db=80.0: the reference is the maximum of S itself
power_to_db(S) ==
    LET amin == 2
        top_db == 80
        ref_value == np_max(S)
        log_ref == DezLog10(maximo(amin, ref_value))
        log_spec == [i \in DOMAIN S |-> DezLog10(maximo(amin, S[i])) - log_ref]
        piso == np_max(log_spec) - top_db
    IN [i \in DOMAIN S |-> maximo(log_spec[i], piso)]

\* lines 51-54 of espectro_fft_medio, on mag = |X|^2
fft_medio_db(potencia) ==
    LET mag_mean == np_mean_axis1(potencia)
    IN power_to_db(mag_mean)

\* the Mel filterbank: non-negative overlapping filters, filter k over the
\* bins k and k + 1
mel_basis(k, b) == IF b = k \/ b = k + 1 THEN 1 ELSE 0

\* librosa.feature.melspectrogram(..., power=2.0) (lines 66-72): the filterbank
\* applied to the power spectrogram, frame by frame
melspectrogram(potencia) ==
    [k \in DOMAIN potencia |->
        [t \in DOMAIN potencia[k] |->
            Soma([b \in DOMAIN potencia |-> mel_basis(k, b) * potencia[b][t]],
                 Len(potencia))]]

\* lines 66-78 of espectro_mel_medio
mel_medio_db(potencia) ==
    LET S_mel == melspectrogram(potencia)
        S_mel_mean == np_mean_axis1(S_mel)
    IN power_to_db(S_mel_mean)

pipelineParado == <<disco, ilegiveis, pc, n, m, X_fft_list, X_mel_list, y_labels,
                    X_fft, X_mel, y_arr, console, saidas, gravacoes, reexecucao, anterior>>

InitDb ==
    /\ mag \in [BinsDb -> [QuadrosDb -> Potencias]]
    /\ mag_db = <<>>
    /\ S_mel_db = <<>>
    /\ pcdb = "fft"
    /\ disco = {}
    /\ ilegiveis = {}
    /\ pc = "inativo"
    /\ n = 1
    /\ m = 1
    /\ X_fft_list = <<>>
    /\ X_mel_list = <<>>
    /\ y_labels = <<>>
    /\ X_fft = Nenhum
    /\ X_mel = Nenhum
    /\ y_arr = Nenhum
    /\ console = <<>>
    /\ saidas = [nome \in NomesSaida |-> Nenhum]
    /\ gravacoes = <<>>
    /\ reexecucao = FALSE
    /\ anterior = [nome \in NomesSaida |-> Nenhum]

\* line 110 on the spectrogram of the signal
CalcularFft ==
    /\ pcdb = "fft"
    /\ mag_db' = fft_medio_db(mag)
    /\ pcdb' = "mel"
    /\ UNCHANGED <<mag, S_mel_db, pipelineParado>>

\* line 113 on the spectrogram of the same signal
CalcularMel ==
    /\ pcdb = "mel"
    /\ S_mel_db' = mel_medio_db(mag)
    /\ pcdb' = "feito"
    /\ UNCHANGED <<mag, mag_db, pipelineParado>>

NextDb ==
    \/ CalcularFft
    \/ CalcularMel

SpecDb == InitDb /\ [][NextDb]_vars

\* ------------------------------------------------------------------------
\* Properties
\* ------------------------------------------------------------------------
AposLaco == {"converter", "salvar_fft", "salvar_mel", "salvar_labels", "fim"}
Convertido == {"salvar_fft", "salvar_mel", "salvar_labels", "fim"}
TresSaidas == <<"X_fft.npy", "X_mel.npy", "y_labels.npy">>

\* len(arr) of an array
np_len(arr) == arr.shape[1]

\* the number of console lines that start with `texto`
Conta(texto) == Cardinality({ i \in 1..Len(console) : console[i][1] = texto })

\* the position in the enumeration of the expected file a path names
OrdemDe(path) == Ordem(ArquivoDe[path][1], ArquivoDe[path][2])

\* the i-th expected (n, m) of the enumeration
Iesimo(i) == <<((i - 1) \div NumAmostras) + 1, ((i - 1) % NumAmostras) + 1>>

\* C1: the three sequences always have the same length; after the loop it is
\* the number of expected files present on disk, and so is the length of the
\* three arrays and of every array saved.
C1_ComprimentosIguais ==
    /\ Len(X_fft_list) = Len(X_mel_list)
    /\ Len(X_mel_list) = Len(y_labels)
    /\ pc \in AposLaco => Len(y_labels) = Cardinality(disco)
    /\ pc \in Convertido =>
          /\ np_len(X_fft) = Cardinality(disco)
          /\ np_len(X_mel) = Cardinality(disco)
          /\ np_len(y_arr) = Cardinality(disco)
    /\ \A k \in 1..Len(gravacoes) : np_len(saidas[gravacoes[k]]) = Cardinality(disco)

\* C1 witness: a finished execution over a directory with one file missing
C1_Witness ==
    /\ pc = "fim"
    /\ Cardinality(disco) = Total - 1
    /\ \A nome \in NomesSaida : np_len(saidas[nome]) = Total - 1

\* C2: in the final dataset the two feature vectors of an index are computed from
\* one and the same loaded signal, that signal is the one of an expected file
\* corda{n}_{m}.wav, and the label of the index is that n, in 1..6; the saved
\* files hold these arrays.
C2_MesmaOrigemERotulo ==
    /\ pc \in Convertido =>
          \A i \in 1..np_len(y_arr) :
              LET f == X_fft.dados[i]
                  g == X_mel.dados[i]
              IN /\ f.tipo = "fft_db"
                 /\ g.tipo = "mel_db"
                 /\ f.de = g.de
                 /\ f.de.sinal \in Caminhos
                 /\ y_arr.dados[i] = ArquivoDe[f.de.sinal][1]
                 /\ y_arr.dados[i] \in 1..6
                 /\ (f.de.sinal = filepath(3, 5) => y_arr.dados[i] = 3)
    /\ pc = "fim" =>
          /\ saidas["X_fft.npy"] = X_fft
          /\ saidas["X_mel.npy"] = X_mel
          /\ saidas["y_labels.npy"] = y_arr

\* C2 witness: the saved dataset has the entry of corda3_5.wav, labelled 3
C2_Witness ==
    /\ pc = "fim"
    /\ \E i \in 1..np_len(saidas["y_labels.npy"]) :
          /\ saidas["X_fft.npy"].dados[i].de.sinal = filepath(3, 5)
          /\ saidas["X_mel.npy"].dados[i].de.sinal = filepath(3, 5)
          /\ saidas["y_labels.npy"].dados[i] = 3

\* C3: a step of the loop at an absent path prints exactly one warning line
\* naming that path, leaves the three sequences as they are and goes on to the
\* next expected name (or leaves the loop after the last); and with only
\* corda1_30.wav missing out of the 180 files the finished execution has printed
\* exactly one warning and has 29 entries labelled 1 and 179 entries in all.
C3_AusenteAvisaEPula ==
    /\ [][ (pc = "laco" /\ filepath(n, m) \notin disco) =>
              /\ console' = Append(console, <<Aviso, filepath(n, m)>>)
              /\ UNCHANGED <<X_fft_list, X_mel_list, y_labels>>
              /\ pc' \in {"laco", "converter"}
              /\ (pc' = "laco" => Ordem(n', m') = Ordem(n, m) + 1)
              /\ (pc' = "converter" => Ordem(n, m) = Total) ]_vars
    /\ []( (pc = "fim" /\ disco = Caminhos \ {filepath(1, 30)}) =>
              /\ Total = 180
              /\ Conta(Aviso) = 1
              /\ \E i \in 1..Len(console) : console[i] = <<Aviso, filepath(1, 30)>>
              /\ Cardinality({ i \in 1..np_len(y_arr) : y_arr.dados[i] = 1 }) = 29
              /\ np_len(y_arr) = 179
              /\ np_len(X_fft) = 179
              /\ np_len(X_mel) = 179 )

\* C3 witness: the execution over the directory missing only corda1_30.wav
\* has finished, having warned once
C3_Witness ==
    /\ pc = "fim"
    /\ disco = Caminhos \ {filepath(1, 30)}
    /\ ilegiveis = {}
    /\ Conta(Aviso) = 1

\* C4: while the loop runs, when it has just ended and when the execution has
\* aborted, no output file has been written; the loop never goes past a present
\* file that fails to load: the execution aborts at that file.
C4_NadaEscritoAntesDoFim ==
    /\ pc \in {"laco", "converter", "abortado"} =>
          /\ gravacoes = <<>>
          /\ saidas = [nome \in NomesSaida |-> Nenhum]
    /\ pc \in {"laco", "abortado"} =>
          \A p \in ilegiveis : OrdemDe(p) >= Ordem(n, m)
    /\ pc \in AposLaco => ilegiveis = {}
    /\ pc = "abortado" => filepath(n, m) \in ilegiveis
    /\ (pc = "laco" /\ filepath(n, m) \in ilegiveis) => ~ENABLED Processar

\* C4 witness: an execution aborted at a file after having processed others
C4_Witness ==
    /\ pc = "abortado"
    /\ Len(y_labels) > 0
    /\ gravacoes = <<>>

\* C5: over a directory with none of the 180 expected files the execution never
\* aborts and adds no entry; it goes on to the end, where it has printed 180
\* warnings and written the three output files, each a zero-length array.
C5_DiretorioVazio ==
    disco = {} =>
        /\ pc # "abortado"
        /\ Len(X_fft_list) = 0 /\ Len(X_mel_list) = 0 /\ Len(y_labels) = 0
        /\ pc = "fim" \/ ENABLED Next
        /\ pc \in AposLaco => Conta(Aviso) = 180
        /\ pc = "fim" =>
              /\ { gravacoes[k] : k \in 1..Len(gravacoes) } = NomesSaida
              /\ \A nome \in NomesSaida : np_len(saidas[nome]) = 0

\* C5 witness: the execution over the empty directory has finished
C5_Witness ==
    /\ disco = {}
    /\ pc = "fim"
    /\ Len(gravacoes) = 3

\* C6: after the loop the arrays have the shapes (samples_found, N_FFT/2 + 1) =
\* (samples_found, 1025), (samples_found, N_MELS) = (samples_found, 40) and
\* (samples_found,), for every number samples_found of present files, 0 included.
C6_FormasDosArrays ==
    pc \in Convertido =>
        /\ X_fft.shape = <<Cardinality(disco), N_FFT \div 2 + 1>>
        /\ X_fft.shape = <<Cardinality(disco), 1025>>
        /\ X_mel.shape = <<Cardinality(disco), N_MELS>>
        /\ X_mel.shape = <<Cardinality(disco), 40>>
        /\ y_arr.shape = <<Cardinality(disco)>>

\* C7: when the second execution over the unchanged directory has ended, the
\* three output files are exactly as the first execution left them: same
\* entries, same order, same labels, same feature vectors.
C7_Idempotente ==
    (reexecucao /\ pc \in {"fim", "abortado"}) =>
        /\ saidas = anterior
        /\ pc = "fim" => gravacoes = TresSaidas

\* C7 witness: the second execution has finished and saved a non-empty dataset
C7_Witness ==
    /\ reexecucao
    /\ pc = "fim"
    /\ gravacoes = TresSaidas
    /\ np_len(saidas["y_labels.npy"]) > 0

C9_OrdemDeDescoberta ==
    pc = "converter" =>
        LET ord == [i \in 1..Len(X_fft_list) |->
                       LET e == ArquivoDe[X_fft_list[i].de.sinal]
                       IN Ordem(e[1], e[2])]
        IN /\ \A i \in 1..Len(X_fft_list) :
                 /\ X_mel_list[i].de = X_fft_list[i].de
                 /\ y_labels[i] = ArquivoDe[X_fft_list[i].de.sinal][1]
           /\ { X_fft_list[i].de.sinal : i \in 1..Len(X_fft_list) } = disco
           /\ \A i \in 1..(Len(X_fft_list) - 1) : ord[i] < ord[i + 1]
           /\ \A i \in 1..(Len(y_labels) - 1) : y_labels[i] <= y_labels[i + 1]
           /\ \A c \in Cordas :
                 Cardinality({ i \in 1..Len(y_labels) : y_labels[i] = c }) <= 30

\* C9 witness: the loop has ended with entries of two strings and a file missing
C9_Witness ==
    /\ pc = "converter"
    /\ Cardinality(disco) = Total - 1
    /\ y_labels[1] = 1
    /\ y_labels[Len(y_labels)] = 6

\* C10: when no present file fails to load, the execution goes on until the end
\* and stops there; the i-th console line is the one line of the i-th expected
\* name, a warning or a progress line (stated of the line just printed in every
\* state of the loop, and of all 180 lines when the loop ends); after the loop the warnings and the
\* progress lines are 180 in all and the progress lines are as many as the
\* entries; at the end each of the three arrays has been written exactly once.
C10_UmaLinhaPorNomeEFim ==
    ilegiveis = {} =>
        /\ pc # "abortado"
        /\ pc = "fim" <=> ~ENABLED Next
        /\ pc = "laco" => Len(console) = Ordem(n, m) - 1
        /\ pc \in AposLaco => Conta(Aviso) + Conta(Progresso) = 180
        /\ \A i \in (IF pc = "laco" THEN {Len(console)} \ {0}
                      ELSE IF pc = "converter" THEN 1..Total ELSE {}) :
              /\ console[i][1] \in {Aviso, Progresso}
              /\ console[i][2] = Caminho[Iesimo(i)]
              /\ console[i][1] = Aviso <=> Caminho[Iesimo(i)] \notin disco
        /\ Conta(Progresso) = Len(y_labels)
        /\ pc \in Convertido => Conta(Progresso) = np_len(y_arr)
        /\ pc = "fim" => gravacoes = TresSaidas

\* C10 witness: a finished execution that printed warnings and progress lines
C10_Witness ==
    /\ pc = "fim"
    /\ ilegiveis = {}
    /\ Conta(Aviso) > 0
    /\ Conta(Progresso) > 0
    /\ gravacoes = TresSaidas

=============================================================================
